---- MODULE Spec2Model ----
(***************************************************************************)
(* six_degrees: the fetcher service (src/src/fetch.rs) and the worker mesh *)
(* (src/src/worker.rs), with the callers of both as the environment.       *)
(***************************************************************************)
EXTENDS Integers, Sequences, FiniteSets, TLC

\* ---------------------------------------------------------------- bounds
\* raw worker count handed to get_foundation_for (the --workers override)
RawWorkers == 2
\* Get commands the callers submit to the fetcher in one run
MaxGets == 2
\* Request commands the callers submit to the workers in one run
MaxRequests == 2
\* Update commands the callers submit to the workers in one run
MaxUpdates == 1
\* get(title) calls and Requests of the client of the fetcher-and-workers runs
MeshGets == 1
MeshRequests == 1

\* ------------------------------------------------------ program constants
\* check_maxlag with one try fewer (mutant of InitialTries)
InitialTriesShort == 4 - 1
\* check_maxlag: let mut tries = 4
InitialTries == 4

\* ------------------------------------------------------------ foundation
RECURSIVE RoundLoop(_, _)
RoundLoop(power, value) ==
    IF power <= value THEN RoundLoop(power * 2, value) ELSE power \div 2

\* foundation.rs round_down_to_power_of_2
round_down_to_power_of_2(value) == RoundLoop(1, value)

\* get_foundation_for: worker_count
worker_count == round_down_to_power_of_2(RawWorkers)

\* get_foundation_for / worker::new: bitwise_worker_match
bitwise_worker_match == worker_count - 1

Workers == 0 .. (worker_count - 1)

\* --------------------------------------------------------------- digests
Titles == {"Rail transport", "Railways"}

\* entry.rs get_digest: octets 0..3 of md5(title)
get_digest(title) ==
    IF title = "Rail transport" THEN <<11, 99, 196, 186>>
    ELSE IF title = "Railways" THEN <<76, 154, 65, 74>>
    ELSE IF title = "Rail_transport" THEN <<76, 177, 58, 243>>
    ELSE <<165, 46, 141, 56>>

RECURSIVE BitAnd(_, _)
BitAnd(a, b) ==
    IF a = 0 \/ b = 0 THEN 0
    ELSE (a % 2) * (b % 2) + 2 * BitAnd(a \div 2, b \div 2)

\* worker.rs extract_worker_id_from (digest[k] of the code is digest[k+1] here)
extract_worker_id_from(digest) ==
    BitAnd(((digest[2] * 256) % 65536) + digest[1], bitwise_worker_match)

\* ------------------------------------------------------- upstream bodies
SuccessBody  == [shape |-> "parse", code |-> "none",         lagFields |-> FALSE]
MaxLagBody   == [shape |-> "error", code |-> "maxlag",       lagFields |-> TRUE]
MissingBody  == [shape |-> "error", code |-> "missingtitle", lagFields |-> FALSE]
OtherErrBody == [shape |-> "error", code |-> "badtoken",     lagFields |-> FALSE]
GarbageBody  == [shape |-> "other", code |-> "none",         lagFields |-> FALSE]

Bodies == {SuccessBody, MaxLagBody, MissingBody, OtherErrBody, GarbageBody}

NoFile == [shape |-> "nofile", code |-> "none", lagFields |-> FALSE]

\* fetch.rs parse: tries Page, then MaxLagError, then MissingTitleError
parse(payload) ==
    IF payload.shape = "parse" THEN "Ok"
    ELSE IF payload.shape = "error" /\ payload.lagFields THEN "Lag"
    ELSE IF payload.shape = "error" THEN "MissingTitle"
    ELSE "Parse"

\* what upstream may answer to one request
UpstreamResponses ==
    [kind : {"http"}, status : {200}, body : Bodies]
      \cup [kind : {"http"}, status : {204, 503}, body : {GarbageBody}]
      \cup [kind : {"transport"}, status : {0}, body : {GarbageBody}]

\* (mutant) fetch_page returning the text whatever the status
fetch_page_any_status(r) ==
    IF r.kind = "transport" THEN [ok |-> FALSE, err |-> "Reqwest", body |-> NoFile]
    ELSE [ok |-> TRUE, err |-> "none", body |-> r.body]

\* fetch.rs fetch_page: the Result it returns for an upstream answer
fetch_page(r) ==
    IF r.kind = "transport" THEN [ok |-> FALSE, err |-> "Reqwest", body |-> NoFile]
    ELSE IF r.status = 200 THEN [ok |-> TRUE, err |-> "none", body |-> r.body]
    ELSE [ok |-> FALSE, err |-> "Http", body |-> NoFile, status |-> r.status]

\* no upstream request of the Get being served has been answered
NoAnswer == [kind |-> "none", status |-> 0, body |-> NoFile]

\* the cache directory as the program finds it: one title never fetched before,
\* the other with whatever file an earlier run or the operator left there
InitialCaches ==
    {c \in [Titles -> Bodies \cup {NoFile}] : c["Railways"] = NoFile}

\* ---------------------------------------------------------------- state
VARIABLES
    fq,        \* the fetcher's request queue (rx of fetch_service)
    fpc,       \* position of the fetch_service task
    cur,       \* the Get being served
    page,      \* check_maxlag: page
    response,  \* check_maxlag: response
    tries,     \* check_maxlag: tries
    result,    \* value of get_links_from_title about to be sent
    attempts,  \* upstream requests issued for the Get being served
    hit,       \* get_page_from found the cache file of the Get being served
    answer,    \* what upstream answered to the last request of that Get
    cache,     \* the disk cache: title -> file contents
    inflight,  \* upstream HTTP requests issued and not yet answered
    gets,      \* per submitted Get: title, sender, replies, reply channel
    served,    \* ids of the Gets dequeued, in dequeue order
    fended     \* an End was submitted to the fetcher

\* the locals of one get_links_from_title call
locals == <<cur, page, response, tries, result, attempts, hit, answer>>

fvars == <<fq, fpc, locals, cache, inflight, gets, served, fended>>

VARIABLES
    wq,        \* per worker: its command queue (rx_command)
    wpc,       \* per worker: position of worker_service
    wcur,      \* per worker: the Request in process_request
    reqs,      \* per submitted Request: title, target worker, replies, channel
    updates,   \* per worker: titles of the Updates it dequeued
    nupdates,  \* Updates submitted so far
    wended     \* workers an End was submitted to

wvars == <<wq, wpc, wcur, reqs, updates, nupdates, wended>>

VARIABLES
    opt,        \* what OPT and SYSTEM report: memory in KiB, cores, --workers
    cpc,        \* position of Foundation::new / of the caller that routes
    foundation, \* outcome of Foundation::new
    routed      \* the digests routed so far, each with the ids extracted

cvars == <<opt, cpc, foundation, routed>>

VARIABLES
    areq,       \* the hyper Request handed to api_service
    apc,        \* position of api_service
    aresp,      \* the Response api_service returned
    astart      \* how the call of api::new ended

avars == <<areq, apc, aresp, astart>>

VARIABLES
    pfor,       \* the title fetch_page was called with
    pin,        \* the upstream answer handed to fetch_page and parse
    ppc,        \* which of the two has been applied to it
    fetched,    \* what fetch_page returned for it
    presult      \* what parse returned for its body

pvars == <<pfor, pin, ppc, fetched, presult>>

VARIABLES
    rvalue,     \* round_down_to_power_of_2: value
    rpower,     \* round_down_to_power_of_2: power
    rpc,        \* position of round_down_to_power_of_2
    rout        \* what round_down_to_power_of_2 returned

rvars == <<rvalue, rpower, rpc, rout>>

VARIABLES
    npc,          \* position of worker::new
    tx_commands,  \* init_command_handles: tx_commands
    rx_commands,  \* init_command_handles: rx_commands, drained by new
    spawned,      \* the Worker structs moved into the spawned tasks
    join_handles, \* new: join_handles
    returned,     \* what worker::new returned
    wrouted       \* digests routed by a Worker, with the ids extracted

nvars == <<npc, tx_commands, rx_commands, spawned, join_handles, returned, wrouted>>

vars == <<fvars, wvars, cvars, avars, pvars, rvars, nvars>>

\* round_down_to_power_of_2 is not being stepped through
RoundIdle ==
    /\ rvalue = [hi |-> 0, lo |-> 0]
    /\ rpower = [hi |-> 0, lo |-> 0]
    /\ rpc = "idle"
    /\ rout = [hi |-> 0, lo |-> 0]

\* no call of worker::new has been made
NewIdle ==
    /\ npc = "idle"
    /\ tx_commands = <<>>
    /\ rx_commands = <<>>
    /\ spawned = <<>>
    /\ join_handles = <<>>
    /\ returned = [status |-> "none"]
    /\ wrouted = <<>>

\* no answer is being looked at
PageIdle ==
    /\ pfor = ""
    /\ pin = [kind |-> "none"]
    /\ ppc = "idle"
    /\ fetched = [ok |-> FALSE, err |-> "none"]
    /\ presult = [kind |-> "none"]

\* no request has reached api_service
ApiIdle ==
    /\ areq = [method |-> "none"]
    /\ apc = "idle"
    /\ aresp = [status |-> 0]
    /\ astart = [status |-> "none"]

\* no call of Foundation::new has been made
FoundationIdle ==
    /\ opt = [memory |-> 0, cores |-> 0, workers |-> [some |-> FALSE, value |-> 0]]
    /\ cpc = "idle"
    /\ foundation = [status |-> "none"]
    /\ routed = <<>>

InitServices ==
    /\ fq = <<>>
    /\ fpc = "recv"
    /\ cur = 0
    /\ page = NoFile
    /\ response = "none"
    /\ tries = 0
    /\ result = "none"
    /\ attempts = 0
    /\ hit = FALSE
    /\ answer = NoAnswer
    /\ cache \in InitialCaches
    /\ inflight = 0
    /\ gets = <<>>
    /\ served = <<>>
    /\ fended = FALSE
    /\ wq = [w \in Workers |-> <<>>]
    /\ wpc = [w \in Workers |-> "recv"]
    /\ wcur = [w \in Workers |-> 0]
    /\ reqs = <<>>
    /\ updates = [w \in Workers |-> {}]
    /\ nupdates = 0
    /\ wended = {}

Init == InitServices /\ FoundationIdle /\ ApiIdle /\ PageIdle /\ RoundIdle /\ NewIdle

\* ------------------------------------------------------- fetcher callers
\* (mutant) queues created with twice the capacity
QueueCapacityDouble == 2 * worker_count

\* capacity of every mpsc queue: mpsc::channel(worker_count)
QueueCapacity == worker_count

\* a caller (sender id `from`) submits Get{title, tx} on tx_to_fetch
SubmitGet(title, from) ==
    /\ Len(gets) < MaxGets
    /\ Len(fq) < QueueCapacity
    /\ gets' = Append(gets, [title |-> title, from |-> from,
                             replies |-> <<>>, open |-> TRUE])
    /\ fq' = Append(fq, [cmd |-> "Get", id |-> Len(gets) + 1])
    /\ UNCHANGED <<fpc, locals, cache, inflight, served, fended>>

\* a caller submits End on tx_to_fetch
SubmitFetchEnd ==
    /\ ~fended
    /\ Len(fq) < QueueCapacity
    /\ fended' = TRUE
    /\ fq' = Append(fq, [cmd |-> "End", id |-> 0])
    /\ UNCHANGED <<fpc, locals, cache, inflight, gets, served>>

\* a caller drops the receiving end of its reply channel before the reply is
\* sent; fetch_service looks at the channel only when it sends, so the drop is
\* placed at that point
CloseGetReply(id) ==
    /\ gets[id].open
    /\ fpc = "send" /\ cur = id
    /\ gets' = [gets EXCEPT ![id].open = FALSE]
    /\ UNCHANGED <<fq, fpc, locals, cache, inflight, served, fended>>

\* --------------------------------------------------------- fetch_service
\* (mutant) fetch_service spawns get_links_from_title instead of awaiting it
FetcherIdleSpawned == fpc \in {"recv", "fetch_page_initial", "fetch_page_retry"}

\* fetch_service is at rx.recv().await
FetcherIdle == fpc = "recv"

\* (mutant) fetch_service goes back to rx.recv() after End
FetchEndContinue == "recv"

\* fetch_service: End => break
FetchEnd == "exited"

\* fetch_service: let fetch_command = rx.recv().await.unwrap(); match ...
FetcherRecv ==
    /\ FetcherIdle
    /\ fq # <<>>
    /\ fq' = Tail(fq)
    /\ IF Head(fq).cmd = "End"
         THEN /\ fpc' = FetchEnd
              /\ UNCHANGED <<cur, served>>
         ELSE /\ fpc' = "get_page_from"
              /\ cur' = Head(fq).id
              /\ served' = Append(served, Head(fq).id)
    /\ UNCHANGED <<page, response, tries, result, attempts, hit, answer>>
    /\ UNCHANGED <<cache, inflight, gets, fended>>

\* build_url: the query pairs of the Url, in order
build_url(title) ==
    <<<<"action", "parse">>, <<"format", "json">>, <<"page", title>>,
      <<"prop", "links">>>>

\* lazy_static CLIENT: built with gzip(true) and the SixDegrees user agent;
\* no function of fetch.rs uses it
CLIENT == [name |-> "CLIENT", gzip |-> TRUE,
           user_agent |-> "SixDegrees/0.1 sixdegrees@streete.net"]

\* the client behind reqwest::get: a default Client, gzip on (the crate
\* feature is enabled), no user agent set
DefaultClient == [name |-> "reqwest::get", gzip |-> TRUE, user_agent |-> ""]

\* fetch_page: reqwest::get(build_url(root_url, title).as_str())
fetch_request(title) == [query |-> build_url(title), client |-> DefaultClient]

\* one upstream request leaves for the Get being served (reqwest::get in fetch_page)
IssueRequest ==
    /\ inflight' = inflight + 1
    /\ attempts' = attempts + 1

\* get_page_from: cache lookup; on a hit read the file, on a miss start fetch_page
\* (dirOk: get_cache_directory_from succeeded; readOk: fs::read_to_string did,
\* which is asked for on a hit only)
GetPageFrom ==
    /\ fpc = "get_page_from"
    /\ \E dirOk \in BOOLEAN, readOk \in BOOLEAN :
         LET exists == dirOk /\ cache[gets[cur].title] # NoFile IN
         IF exists
           THEN /\ hit' = TRUE
                /\ UNCHANGED <<inflight, attempts>>
                /\ IF readOk
                     THEN /\ page' = cache[gets[cur].title]
                          /\ response' = parse(cache[gets[cur].title])
                          /\ tries' = InitialTries
                          /\ fpc' = "check_maxlag"
                          /\ UNCHANGED result
                     ELSE /\ result' = "IO"
                          /\ fpc' = "send"
                          /\ UNCHANGED <<page, response, tries>>
           ELSE /\ readOk
                /\ IssueRequest
                /\ fpc' = "fetch_page_initial"
                /\ UNCHANGED <<page, response, tries, result, hit>>
    /\ UNCHANGED <<fq, cur, answer, cache, gets, served, fended>>

\* get_page_from: fetch_page(&URL, title).await? completes; parse; enter check_maxlag
FetchPageInitial ==
    /\ fpc = "fetch_page_initial"
    /\ inflight' = inflight - 1
    /\ \E r \in UpstreamResponses :
         /\ answer' = r
         /\ IF fetch_page(r).ok
              THEN /\ page' = fetch_page(r).body
                   /\ response' = parse(fetch_page(r).body)
                   /\ tries' = InitialTries
                   /\ fpc' = "check_maxlag"
                   /\ UNCHANGED result
              ELSE /\ result' = fetch_page(r).err
                   /\ fpc' = "send"
                   /\ UNCHANGED <<page, response, tries>>
    /\ UNCHANGED <<fq, cur, attempts, hit, cache, gets, served, fended>>

\* (mutant) the retry budget test off by one
LagBudgetOffByOne(t) == t < 0

\* check_maxlag: if tries <= 0 { break response }
LagBudgetExhausted(t) == t <= 0

\* (mutant) the Ok arm of check_maxlag taking a missing title as well
MatchesOkOrMissing(r) == r \in {"Ok", "MissingTitle"}

\* check_maxlag: match &response { Ok(_) => ...
MatchesOk(r) == r = "Ok"

\* (mutant) the Lag arm of check_maxlag taking a missing title as well
MatchesLagOrMissing(r) == r \in {"Lag", "MissingTitle"}

\* check_maxlag: Err(lag_error) if matches!(lag_error, FetchError::Lag(_))
MatchesLag(r) == r = "Lag"

\* check_maxlag: one turn of the loop, up to the sleep
CheckMaxlag ==
    /\ fpc = "check_maxlag"
    /\ IF MatchesOk(response)
         THEN /\ \E wrote \in BOOLEAN :
                   cache' = IF wrote THEN [cache EXCEPT ![gets[cur].title] = page]
                                     ELSE cache
              /\ result' = response
              /\ fpc' = "send"
              /\ UNCHANGED tries
         ELSE IF MatchesLag(response)
           THEN IF LagBudgetExhausted(tries)
                  THEN /\ result' = response
                       /\ fpc' = "send"
                       /\ UNCHANGED <<tries, cache>>
                  ELSE /\ tries' = tries - 1
                       /\ fpc' = "sleep"
                       /\ UNCHANGED <<result, cache>>
           ELSE /\ result' = response
                /\ fpc' = "send"
                /\ UNCHANGED <<tries, cache>>
    /\ UNCHANGED <<fq, cur, page, response, attempts, hit, answer, inflight,
                   gets, served, fended>>

\* check_maxlag: the sleep ends and fetch_page(url, title) is started
SleepDone ==
    /\ fpc = "sleep"
    /\ IssueRequest
    /\ fpc' = "fetch_page_retry"
    /\ UNCHANGED <<fq, cur, page, response, tries, result, hit, answer, cache,
                   gets, served, fended>>

\* check_maxlag: page = fetch_page(url, title).await?; response = parse(&page)
FetchPageRetry ==
    /\ fpc = "fetch_page_retry"
    /\ inflight' = inflight - 1
    /\ \E r \in UpstreamResponses :
         /\ answer' = r
         /\ IF fetch_page(r).ok
              THEN /\ page' = fetch_page(r).body
                   /\ response' = parse(fetch_page(r).body)
                   /\ fpc' = "check_maxlag"
                   /\ UNCHANGED result
              ELSE /\ result' = fetch_page(r).err
                   /\ fpc' = "send"
                   /\ UNCHANGED <<page, response>>
    /\ UNCHANGED <<fq, cur, tries, attempts, hit, cache, gets, served, fended>>

\* the locals of get_links_from_title go out of scope
DropLocals ==
    /\ cur' = 0
    /\ page' = NoFile
    /\ response' = "none"
    /\ tries' = 0
    /\ result' = "none"
    /\ attempts' = 0
    /\ hit' = FALSE
    /\ answer' = NoAnswer

\* (mutant) the Result of tx.send dropped instead of unwrapped
FetcherSendIgnoringError ==
    /\ fpc = "send"
    /\ gets' = IF gets[cur].open
                THEN [gets EXCEPT ![cur].replies = Append(@, result)]
                ELSE gets
    /\ fpc' = "recv"
    /\ DropLocals
    /\ UNCHANGED <<fq, cache, inflight, served, fended>>

\* fetch_service: tx.send(get_links_from_title(title).await).await.unwrap()
FetcherSend ==
    /\ fpc = "send"
    /\ IF gets[cur].open
         THEN /\ gets' = [gets EXCEPT ![cur].replies = Append(@, result)]
              /\ fpc' = "recv"
         ELSE /\ fpc' = "panicked"
              /\ UNCHANGED gets
    /\ DropLocals
    /\ UNCHANGED <<fq, cache, inflight, served, fended>>

FetcherStep ==
    \/ FetcherRecv
    \/ GetPageFrom
    \/ FetchPageInitial
    \/ CheckMaxlag
    \/ SleepDone
    \/ FetchPageRetry
    \/ FetcherSend

FetchCallers ==
    \/ \E t \in Titles : SubmitGet(t, "caller")
    \/ SubmitFetchEnd
    \/ \E id \in DOMAIN gets : CloseGetReply(id)

NextFetch == (FetcherStep \/ FetchCallers) /\ UNCHANGED <<wvars, cvars, avars, pvars, rvars, nvars>>

SpecFetch == Init /\ [][NextFetch]_vars

\* the cache directory before the program has written anything to it
InitFreshCache == Init /\ cache = [t \in Titles |-> NoFile]

\* the fetcher started on an empty cache directory
SpecFreshCache == InitFreshCache /\ [][NextFetch]_vars

\* -------------------------------------------------------- worker callers
\* a caller sends Request{title, tx_resp} on tx_commands[w]; nothing in the
\* code picks w from the title, so any w can be the target
SendRequest(w, title) ==
    /\ Len(reqs) < MaxRequests
    /\ Len(wq[w]) < QueueCapacity
    /\ reqs' = Append(reqs, [title |-> title, to |-> w,
                             replies |-> <<>>, open |-> TRUE])
    /\ wq' = [wq EXCEPT ![w] = Append(@, [cmd |-> "Request", id |-> Len(reqs) + 1,
                                          title |-> title])]
    /\ UNCHANGED <<wpc, wcur, updates, nupdates, wended>>

\* a caller sends Update(entry) for an entry with this title on tx_commands[w]
SendUpdate(w, title) ==
    /\ nupdates < MaxUpdates
    /\ Len(wq[w]) < QueueCapacity
    /\ nupdates' = nupdates + 1
    /\ wq' = [wq EXCEPT ![w] = Append(@, [cmd |-> "Update", id |-> 0,
                                          title |-> title])]
    /\ UNCHANGED <<wpc, wcur, reqs, updates, wended>>

\* a caller sends End on tx_commands[w]
SendWorkerEnd(w) ==
    /\ w \notin wended
    /\ Len(wq[w]) < QueueCapacity
    /\ wended' = wended \cup {w}
    /\ wq' = [wq EXCEPT ![w] = Append(@, [cmd |-> "End", id |-> 0, title |-> ""])]
    /\ UNCHANGED <<wpc, wcur, reqs, updates, nupdates>>

\* a caller drops the receiving end of tx_resp before the reply is sent;
\* process_request looks at the channel only when it sends
CloseRequestReply(rid) ==
    /\ reqs[rid].open
    /\ wpc[reqs[rid].to] = "process_request" /\ wcur[reqs[rid].to] = rid
    /\ reqs' = [reqs EXCEPT ![rid].open = FALSE]
    /\ UNCHANGED <<wq, wpc, wcur, updates, nupdates, wended>>

\* -------------------------------------------------------- worker_service
\* the Entries worker w holds: struct Worker has no slab field and no path of
\* worker.rs constructs an Entry
WorkerEntries(w) == {}

\* (mutant) worker_service goes back to rx_command.recv() after End
WorkerEndContinue == "recv"

\* worker_service: End => break
WorkerEnd == "exited"

\* worker_service: recv, then match: Request => process_request, End => break,
\* Update(_) => todo!()
WorkerRecv(w) ==
    /\ wpc[w] = "recv"
    /\ wq[w] # <<>>
    /\ wq' = [wq EXCEPT ![w] = Tail(@)]
    /\ LET c == Head(wq[w])
           id == extract_worker_id_from(get_digest(c.title)) IN
       IF c.cmd = "Request"
         THEN /\ wpc' = [wpc EXCEPT ![w] = "process_request"]
              /\ wcur' = [wcur EXCEPT ![w] = c.id]
              /\ UNCHANGED updates
         ELSE IF c.cmd = "End"
           THEN /\ wpc' = [wpc EXCEPT ![w] = WorkerEnd]
                /\ UNCHANGED <<wcur, updates>>
           ELSE /\ wpc' = [wpc EXCEPT ![w] = "panicked"]
                /\ updates' = [updates EXCEPT ![w] = @ \cup {c.title}]
                /\ UNCHANGED wcur
    /\ UNCHANGED <<reqs, nupdates, wended>>

\* process_request: the WorkerResponse it sends
ProcessRequestResponse(w, title) == "Fetch"

\* process_request: response_tx_handle.send(WorkerResponse::Fetch).await, the
\* Result of the send dropped
SendResponse(w) ==
    /\ wpc[w] = "process_request"
    /\ LET rid == wcur[w] IN
       reqs' = IF reqs[rid].open
                 THEN [reqs EXCEPT ![rid].replies =
                          Append(@, [msg |-> ProcessRequestResponse(w, reqs[rid].title),
                                     by |-> w,
                                     updated |-> reqs[rid].title \in updates[w]])]
                 ELSE reqs
    /\ wpc' = [wpc EXCEPT ![w] = "recv"]
    /\ wcur' = [wcur EXCEPT ![w] = 0]
    /\ UNCHANGED <<wq, updates, nupdates, wended>>

\* (mutant) process_request awaits the fetch of the title before it replies
ProcessRequestAfterFetch(w) ==
    /\ wpc[w] = "process_request"
    /\ \E id \in DOMAIN gets :
          gets[id].title = reqs[wcur[w]].title /\ gets[id].replies # <<>>
    /\ SendResponse(w)

\* process_request(title, tx_resp)
ProcessRequest(w) == SendResponse(w)

WorkerStep ==
    \/ \E w \in Workers : WorkerRecv(w)
    \/ \E w \in Workers : ProcessRequest(w)

WorkerCallers ==
    \/ \E w \in Workers, t \in Titles : SendRequest(w, t)
    \/ \E w \in Workers, t \in Titles : SendUpdate(w, t)
    \/ \E w \in Workers : SendWorkerEnd(w)
    \/ \E rid \in DOMAIN reqs : CloseRequestReply(rid)

NextWorker == (WorkerStep \/ WorkerCallers) /\ UNCHANGED <<fvars, cvars, avars, pvars, rvars, nvars>>

\* the workers never touch the cache directory
InitWorker == Init /\ cache = [t \in Titles |-> NoFile]

SpecWorker == InitWorker /\ [][NextWorker]_vars

\* each worker_service is a spawned tokio task: the runtime keeps polling a
\* task that has a command to receive or a reply to send
WorkerFairness ==
    \A w \in Workers : WF_wvars(WorkerRecv(w)) /\ WF_wvars(ProcessRequest(w))

SpecWorkerFair == SpecWorker /\ WorkerFairness

\* ------------------------------------------------- fetcher and workers
\* a client that calls get(title) on the fetcher, one call at a time
ClientGet ==
    /\ Len(gets) < MeshGets
    /\ fpc = "recv"
    /\ fq = <<>>
    /\ \E t \in Titles : SubmitGet(t, "caller")
    /\ UNCHANGED wvars

\* a client that sends Requests to the workers while the fetcher runs
ClientRequest ==
    /\ Len(reqs) < MeshRequests
    /\ \E w \in Workers, t \in Titles : SendRequest(w, t)
    /\ UNCHANGED fvars

NextMesh ==
    \/ FetcherStep /\ UNCHANGED <<wvars, cvars, avars, pvars, rvars, nvars>>
    \/ WorkerStep /\ UNCHANGED <<fvars, cvars, avars, pvars, rvars, nvars>>
    \/ ClientGet /\ UNCHANGED <<cvars, avars, pvars, rvars, nvars>>
    \/ ClientRequest /\ UNCHANGED <<cvars, avars, pvars, rvars, nvars>>

SpecMesh == InitWorker /\ [][NextMesh]_vars

\* nothing has been sent to the fetcher
FetcherUnused == gets = <<>> /\ ~fended

\* nothing has been sent to any worker
WorkersUnused == reqs = <<>> /\ nupdates = 0 /\ wended = {}

\* the senders load the fetcher's queue or the workers' queues: no function
\* of fetch.rs sends to a worker and none of worker.rs sends to the fetcher,
\* so a run that fills the queues of one service leaves the other alone
NextQueues ==
    \/ WorkersUnused /\ NextFetch
    \/ FetcherUnused /\ NextWorker

SpecQueues == InitWorker /\ [][NextQueues]_vars

Next == NextFetch \/ NextWorker

Spec == Init /\ [][Next]_vars

\* ------------------------------------------------------------ foundation
\* std::cmp::max and std::cmp::min
Max(a, b) == IF a >= b THEN a ELSE b

Min(a, b) == IF a <= b THEN a ELSE b

\* get_foundation_for: the least system_memory (KiB) it goes on with
MemoryFloor == 2097152

\* u16::MAX
U16Max == 65535

\* Opt::get_worker_count: the cap on --workers, (u16::MAX as u32) + 1
WorkersCap == 65536

\* values of system_memory(): OPT.get_memory() or SYSTEM.total_memory(), KiB
Memories == {0, 2097151, 2097152, 2097153, 3000000, 8589934, 70000000}

\* values of system_cores(): OPT.get_cores() or the physical core count
Cores == {1, 4, 8, 32768, 40000}

\* values of --workers as given on the command line, and its absence
WorkerOptions ==
    {[some |-> FALSE, value |-> 0]} \cup
    {[some |-> TRUE, value |-> n] : n \in {0, 1, 3, 16, 17, 128, 65536, 70000}}

\* Opt::get_worker_count
get_worker_count(o) ==
    IF o.workers.some
      THEN [some |-> TRUE, value |-> Min(o.workers.value, WorkersCap)]
      ELSE [some |-> FALSE, value |-> 0]

\* system_memory()
system_memory(o) == o.memory

\* system_cores()
system_cores(o) == o.cores

\* raw_workers()
raw_workers(o) ==
    IF get_worker_count(o).some
      THEN get_worker_count(o).value
      ELSE Min(system_cores(o) * 2, U16Max)

\* (mutant) the floor test of get_foundation_for written with <=
MemoryBelowFloorInclusive(m) == m <= MemoryFloor

\* get_foundation_for: if system_memory < 2097152 { ...; exit(1) }
MemoryBelowFloor(m) == m < MemoryFloor

\* get_foundation_for: tx_handle_count, 8 bytes per handle, at least 1 MiB
tx_handle_count(wc) == Max((8 * wc) \div 1024, 1024)

\* get_foundation_for: working_memory
working_memory == 1024 * 1024

\* get_foundation_for: message_size
message_size(wc) == wc

\* get_foundation_for: tokio_task_cache
tokio_task_cache(wc) == (64 * wc) \div 1024

\* get_foundation_for: reserved_memory
reserved_memory(wc) ==
    working_memory + tx_handle_count(wc) + message_size(wc) + tokio_task_cache(wc)

\* get_foundation_for: slabs, for memory >= reserved_memory(wc)
slabs(memory, wc) == Min((memory - reserved_memory(wc)) \div 1024, U16Max)

\* (mutant) slabs_per_worker taken as the quotient, not rounded down
slabs_per_worker_unrounded(memory, wc) == slabs(memory, wc) \div wc

\* get_foundation_for: slabs_per_worker, for wc >= 1
slabs_per_worker(memory, wc) ==
    round_down_to_power_of_2(slabs(memory, wc) \div wc)

\* get_foundation_for: spare_count
spare_count(memory, wc) ==
    (slabs(memory, wc) - (wc * slabs_per_worker(memory, wc))) * 2

\* the process left through std::process::exit(1)
Exited == [status |-> "exit", code |-> 1]

\* the calling thread panicked: no Foundation is returned
Panicked == [status |-> "panic"]

\* get_foundation_for(system_memory, cores, raw_workers). The panics:
\* system_memory - reserved_memory below zero (overflow check, or the wrapped
\* value failing try_into u32); slabs / worker_count with worker_count = 0;
\* worker_count - 1 not fitting u16; slabs_per_worker - 1 with
\* slabs_per_worker = 0 (overflow check, or the wrapped value failing
\* try_into u16)
get_foundation_for(memory, cores, raw) ==
    LET wc == round_down_to_power_of_2(raw) IN
    IF MemoryBelowFloor(memory) THEN Exited
    ELSE IF memory < reserved_memory(wc) THEN Panicked
    ELSE IF wc = 0 THEN Panicked
    ELSE IF wc - 1 > U16Max THEN Panicked
    ELSE IF slabs_per_worker(memory, wc) = 0 THEN Panicked
    ELSE [status |-> "ok",
          worker_count |-> wc,
          slabs_per_worker |-> slabs_per_worker(memory, wc),
          spare_count |-> spare_count(memory, wc),
          bitwise_worker_match |-> wc - 1,
          bitwise_slab_match |-> slabs_per_worker(memory, wc) - 1]

\* Foundation::new has returned a Foundation
Configured == cpc = "done" /\ foundation.status = "ok"

\* Foundation::new()
FoundationNew ==
    /\ cpc = "new"
    /\ foundation' = get_foundation_for(system_memory(opt), system_cores(opt),
                                        raw_workers(opt))
    /\ cpc' = "done"
    /\ UNCHANGED <<opt, routed>>

\* digests handed to the routing functions: those of the titles and corner
\* values of octets 0-3
Digests ==
    {get_digest(t) : t \in Titles} \cup
    {<<0, 0, 0, 0>>, <<255, 255, 255, 255>>, <<0, 1, 255, 0>>, <<22, 99, 129, 237>>}

\* Foundation::extract_worker_id_from
foundation_extract_worker_id_from(f, digest) ==
    BitAnd(((digest[2] * 256) % 65536) + digest[1], f.bitwise_worker_match)

\* (mutant) extract_slab_id_from reading the octets of the worker id
foundation_extract_slab_id_from_octets01(f, digest) ==
    BitAnd(((digest[2] * 256) % 65536) + digest[1], f.bitwise_slab_match)

\* Foundation::extract_slab_id_from
foundation_extract_slab_id_from(f, digest) ==
    BitAnd(((digest[4] * 256) % 65536) + digest[3], f.bitwise_slab_match)

\* routing evaluations kept in one run
MaxRoutes == 2

\* a holder of the Foundation routes a digest
Route(digest) ==
    /\ cpc = "done"
    /\ foundation.status = "ok"
    /\ Len(routed) < MaxRoutes
    /\ routed' = Append(routed,
          [digest |-> digest,
           worker_id |-> foundation_extract_worker_id_from(foundation, digest),
           slab_id |-> foundation_extract_slab_id_from(foundation, digest)])
    /\ UNCHANGED <<opt, cpc, foundation>>

NextFoundation ==
    (FoundationNew \/ \E d \in Digests : Route(d)) /\ UNCHANGED <<fvars, wvars, avars, pvars, rvars, nvars>>

\* the process starts with some memory, cores and --workers
InitFoundation ==
    /\ InitServices
    /\ cache = [t \in Titles |-> NoFile]
    /\ opt \in [memory : Memories, cores : Cores, workers : WorkerOptions]
    /\ cpc = "new"
    /\ foundation = [status |-> "none"]
    /\ routed = <<>>
    /\ ApiIdle
    /\ PageIdle
    /\ RoundIdle
    /\ NewIdle

SpecFoundation == InitFoundation /\ [][NextFoundation]_vars

\* ------------------------------------------------------------------ api
\* i32::MAX: depth is an integer with no annotation, so parse() is i32's
I32Max == 2147483647

\* i32::MIN
I32Min == (-I32Max) - 1

\* the outcome of a failed parse
ParseErr == [ok |-> FALSE, value |-> 0]

\* i32::from_str, digits of a non-negative number: per digit checked_mul(10),
\* then checked_add(digit)
RECURSIVE ParsePositive(_, _)
ParsePositive(digits, acc) ==
    IF digits = <<>> THEN [ok |-> TRUE, value |-> acc]
    ELSE IF acc > I32Max \div 10 THEN ParseErr
    ELSE IF acc * 10 > I32Max - Head(digits) THEN ParseErr
    ELSE ParsePositive(Tail(digits), (acc * 10) + Head(digits))

\* i32::from_str, digits after a leading '-': per digit checked_mul(10), then
\* checked_sub(digit)
RECURSIVE ParseNegative(_, _)
ParseNegative(digits, acc) ==
    IF digits = <<>> THEN [ok |-> TRUE, value |-> acc]
    ELSE IF acc < -(I32Max \div 10) THEN ParseErr
    ELSE IF acc * 10 < I32Min + Head(digits) THEN ParseErr
    ELSE ParseNegative(Tail(digits), (acc * 10) - Head(digits))

\* str::parse::<i32> of a decoded parameter value: an optional sign, then at
\* least one digit and nothing else
parse_i32(v) ==
    IF v.junk \/ v.digits = <<>> THEN ParseErr
    ELSE IF v.sign = "-" THEN ParseNegative(v.digits, 0)
    ELSE ParsePositive(v.digits, 0)

\* api_service: max(min(params.get("depth").unwrap_or("2").parse().unwrap_or(2), 6), 1)
depth_of(param) ==
    LET text == IF param.present THEN param
                ELSE [present |-> TRUE, sign |-> "", digits |-> <<2>>, junk |-> FALSE]
        parsed == parse_i32(text)
    IN Max(Min(IF parsed.ok THEN parsed.value ELSE 2, 6), 1)

\* str::to_ascii_lowercase on the path components used here
to_ascii_lowercase(c) ==
    IF c \in {"Connections", "CONNECTIONS"} THEN "connections" ELSE c

\* api_service: the StartFrom it builds from the title and url parameters
root_of(r) ==
    IF r.title THEN "Some(title)" ELSE IF r.url THEN "Some(url)" ELSE "None"

\* api_service(req)
api_service(r) ==
    IF r.method = "GET"
      THEN IF Len(r.path) # 2 \/ to_ascii_lowercase(r.path[2]) # "connections"
             THEN [status |-> 404, body |-> "Nothing found at", path |-> r.path]
             ELSE [status |-> 200, body |-> "Depth Root",
                   depth |-> depth_of(r.depth), root |-> root_of(r)]
      ELSE [status |-> 404, body |-> ""]

\* request methods
Methods == {"GET", "POST", "HEAD"}

\* request paths, as path.split('/') cuts them
Paths ==
    {<<"", "connections">>, <<"", "Connections">>, <<"", "CONNECTIONS">>,
     <<"", "">>, <<"", "connection">>, <<"", "connections", "">>,
     <<"", "api", "connections">>}

\* digit strings of a depth parameter
DepthDigits ==
    {<<>>, <<0>>, <<1>>, <<2>>, <<5>>, <<6>>, <<7>>, <<0, 0, 7>>, <<1, 0, 0>>,
     <<2, 1, 4, 7, 4, 8, 3, 6, 4, 7>>, <<2, 1, 4, 7, 4, 8, 3, 6, 4, 8>>,
     <<9, 9, 9, 9, 9, 9, 9, 9, 9, 9, 9>>}

\* decoded values of the depth parameter (junk: some character that is
\* neither the leading sign nor a digit), and its absence
DepthParams ==
    {[present |-> FALSE, sign |-> "", digits |-> <<>>, junk |-> FALSE]} \cup
    [present : {TRUE}, sign : {"", "+", "-"}, digits : DepthDigits, junk : BOOLEAN]

Requests ==
    [method : Methods, path : Paths, depth : DepthParams,
     title : BOOLEAN, url : BOOLEAN]

\* hyper calls api_service with the request and sends what it returns
ApiService ==
    /\ apc = "request"
    /\ aresp' = api_service(areq)
    /\ apc' = "responded"
    /\ UNCHANGED <<areq, astart>>

NextApi == ApiService /\ UNCHANGED <<fvars, wvars, cvars, pvars, rvars, nvars>>

\* a request has arrived
InitApi ==
    /\ InitServices
    /\ cache = [t \in Titles |-> NoFile]
    /\ FoundationIdle
    /\ areq \in Requests
    /\ apc = "request"
    /\ aresp = [status |-> 0]
    /\ astart = [status |-> "none"]
    /\ PageIdle
    /\ RoundIdle
    /\ NewIdle

SpecApi == InitApi /\ [][NextApi]_vars

\* ----------------------------------------------- fetch_page and parse
\* longest links array of a payload
MaxLinks == 3

\* Link values of a payload: ns and "*"
LinkPool ==
    {[ns |-> 0,  title |-> "Adolescent cliques"],
     [ns |-> 0,  title |-> "Assortative mixing"],
     [ns |-> 1,  title |-> "Talk:Value network"],
     [ns |-> 12, title |-> "Help:Maintenance template removal"]}

LinkLists == UNION {[1 .. n -> LinkPool] : n \in 0 .. MaxLinks}

\* bodies that deserialize as Page: parse.title, parse.pageid, parse.links
PagePayloads ==
    [shape : {"parse"}, code : {"none"}, lagFields : {FALSE},
     title : {"Value network", "Rail transport"}, links : LinkLists,
     raw : {"{parse: ...}"}]

\* bodies with an error object of code, info, "*" and servedby; lagFields: the
\* object also has host, lag and type
ErrorPayloads ==
    [shape : {"error"}, code : {"maxlag", "missingtitle", "badtoken"},
     lagFields : BOOLEAN, title : {""}, links : {<<>>}, raw : {"{error: ...}"}]

\* bodies that deserialize as none of the three
OtherPayloads ==
    [shape : {"other"}, code : {"none"}, lagFields : {FALSE}, title : {""},
     links : {<<>>}, raw : {"{invalid: ...}", "", "<html>"}]

Payloads == PagePayloads \cup ErrorPayloads \cup OtherPayloads

\* titles get is called with: one as upstream spells it, one that upstream
\* normalizes (underscore for space)
RequestedTitles == {"Rail transport", "Rail_transport"}

\* status codes upstream may answer with
Statuses == {200, 201, 204, 206, 301, 404, 429, 503}

\* upstream answers handed to fetch_page
PageAnswers ==
    [kind : {"http"}, status : Statuses, body : Payloads]
      \cup [kind : {"transport"}, status : {0}, body : OtherPayloads]

\* static PARSE_ERROR
PARSE_ERROR == "Unknown wikipedia payload"

\* (mutant) extract_links_from without the ns filter
extract_links_unfiltered(payload) ==
    [kind |-> "Ok",
     digest |-> get_digest(payload.title),
     title |-> payload.title,
     outbound |-> [i \in 1 .. Len(payload.links) |-> payload.links[i].title]]

\* extract_links_from: links filtered to ns == 0, mapped to their titles
extract_links_from(payload) ==
    LET kept == SelectSeq(payload.links, LAMBDA link : link.ns = 0) IN
    [kind |-> "Ok",
     digest |-> get_digest(payload.title),
     title |-> payload.title,
     outbound |-> [i \in 1 .. Len(kept) |-> kept[i].title]]

\* (mutant) parse handing the rejected body back in the Parse error
parse_error_raw(payload) == [kind |-> "Parse", message |-> payload.raw]

\* parse: Err(FetchError::Parse(String::from(PARSE_ERROR)))
parse_error(payload) == [kind |-> "Parse", message |-> PARSE_ERROR]

\* parse: the FetchResult it returns, with what it carries
parse_result(payload) ==
    IF parse(payload) = "Ok" THEN extract_links_from(payload)
    ELSE IF parse(payload) = "Parse" THEN parse_error(payload)
    ELSE [kind |-> parse(payload)]

\* fetch_page applied to the answer
ApplyFetchPage ==
    /\ ppc = "answer"
    /\ fetched' = fetch_page(pin)
    /\ ppc' = "fetched"
    /\ UNCHANGED <<pfor, pin, presult>>

\* parse applied to the body of the answer
ApplyParse ==
    /\ ppc = "fetched"
    /\ presult' = parse_result(pin.body)
    /\ ppc' = "parsed"
    /\ UNCHANGED <<pfor, pin, fetched>>

NextPage ==
    (ApplyFetchPage \/ ApplyParse) /\ UNCHANGED <<fvars, wvars, cvars, avars, rvars, nvars>>

\* an answer has arrived
InitPage ==
    /\ InitServices
    /\ cache = [t \in Titles |-> NoFile]
    /\ FoundationIdle
    /\ ApiIdle
    /\ pfor \in RequestedTitles
    /\ pin \in PageAnswers
    /\ ppc = "answer"
    /\ fetched = [ok |-> FALSE, err |-> "none"]
    /\ presult = [kind |-> "none"]
    /\ RoundIdle
    /\ NewIdle

SpecPage == InitPage /\ [][NextPage]_vars

\* -------------------------------------------------------------- startup
\* values of OPT.get_api(): no --api, or an address text with or without a
\* dotted quad, and with or without an octet above 255 in it
ApiOptions ==
    {[some |-> FALSE, quad |-> FALSE, octetAbove255 |-> FALSE],
     [some |-> TRUE,  quad |-> FALSE, octetAbove255 |-> FALSE],
     [some |-> TRUE,  quad |-> TRUE,  octetAbove255 |-> FALSE],
     [some |-> TRUE,  quad |-> TRUE,  octetAbove255 |-> TRUE]}

\* try_v4_address: panics on an octet above 255, otherwise Some(DEFAULT_API_SOCKET)
try_v4_address(a) ==
    IF a.quad /\ a.octetAbove255 THEN "panic" ELSE "Some(DEFAULT_API_SOCKET)"

\* get_address: the socket, or the panic of try_v4_address
get_address(a) ==
    IF try_v4_address(a) = "panic" THEN "panic" ELSE "DEFAULT_API_SOCKET"

\* get_api_address: picks the socket, prints it, then std::process::exit(1)
\* on every path; the trailing `socket` is never reached
get_api_address(a) ==
    IF a.some /\ get_address(a) = "panic" THEN Panicked ELSE Exited

\* start_api_service: let addr = get_api_address(); ...; Ok(())
start_api_service(a) == get_api_address(a)

\* api::new(tx_to_fetch) on a process whose Foundation was built
ApiNew(a) ==
    /\ Configured
    /\ astart.status = "none"
    /\ astart' = start_api_service(a)
    /\ UNCHANGED <<areq, apc, aresp>>

NextStartup ==
    \/ FoundationNew /\ UNCHANGED <<fvars, wvars, avars, pvars, rvars, nvars>>
    \/ \E a \in ApiOptions : ApiNew(a) /\ UNCHANGED <<fvars, wvars, cvars, pvars, rvars, nvars>>

SpecStartup == InitFoundation /\ [][NextStartup]_vars

\* ------------------------------------- round_down_to_power_of_2 in 32 bits
\* a u32 as its two 16-bit halves: the value is hi * 65536 + lo
Half == 65536

U32(hi, lo) == [hi |-> hi, lo |-> lo]

\* a <= b on u32
Le32(a, b) == a.hi < b.hi \/ (a.hi = b.hi /\ a.lo <= b.lo)

\* a * 2 does not fit 32 bits
DoubleOverflows(a) == 2 * a.hi + (2 * a.lo) \div Half >= Half

\* a * 2 modulo 2^32
Double32(a) ==
    U32((2 * a.hi + (2 * a.lo) \div Half) % Half, (2 * a.lo) % Half)

\* a / 2
Half32(a) == U32(a.hi \div 2, a.lo \div 2 + (a.hi % 2) * (Half \div 2))

\* arguments round_down_to_power_of_2 is stepped through with
RoundInputs ==
    {U32(hi, lo) : hi \in {0, 1, 2, 16384, 32767, 32768, 49152, 65535},
                   lo \in {0, 1, 2, 3, 16, 17, 31, 32768, 65535}}

\* round_down_to_power_of_2: let mut power: u32 = 1
RoundEnter ==
    /\ rpc = "call"
    /\ rpower' = U32(0, 1)
    /\ rpc' = "while"
    /\ UNCHANGED <<rvalue, rout>>

\* round_down_to_power_of_2: while power <= value; after the loop power / 2
RoundWhile ==
    /\ rpc = "while"
    /\ IF Le32(rpower, rvalue)
         THEN /\ rpc' = "mul"
              /\ UNCHANGED rout
         ELSE /\ rout' = Half32(rpower)
              /\ rpc' = "ret"
    /\ UNCHANGED <<rvalue, rpower>>

\* round_down_to_power_of_2: power *= 2. When the product does not fit u32
\* a build with overflow checks panics and a build without them wraps
RoundMul ==
    /\ rpc = "mul"
    /\ IF DoubleOverflows(rpower)
         THEN \/ rpc' = "panicked" /\ UNCHANGED rpower
              \/ rpc' = "while" /\ rpower' = Double32(rpower)
         ELSE /\ rpower' = Double32(rpower)
              /\ rpc' = "while"
    /\ UNCHANGED <<rvalue, rout>>

NextRound ==
    (RoundEnter \/ RoundWhile \/ RoundMul) /\ UNCHANGED <<fvars, wvars, cvars, avars, pvars, nvars>>

\* round_down_to_power_of_2 has been called
InitRound ==
    /\ InitServices
    /\ cache = [t \in Titles |-> NoFile]
    /\ FoundationIdle
    /\ ApiIdle
    /\ PageIdle
    /\ NewIdle
    /\ rvalue \in RoundInputs
    /\ rpower = U32(0, 0)
    /\ rpc = "call"
    /\ rout = U32(0, 0)

SpecRound == InitRound /\ [][NextRound]_vars

\* ------------------------------------------------------------ worker::new
\* largest --workers override of the runs that build the workers
MaxNewWorkers == 4
\* routing evaluations by a Worker kept in one run
MaxWorkerRoutes == 1

\* what OPT and SYSTEM report in the runs that build the workers
NewOptions ==
    [memory : {2097152, 3000000}, cores : {1, 2},
     workers : {[some |-> FALSE, value |-> 0]} \cup
               {[some |-> TRUE, value |-> n] : n \in 1 .. MaxNewWorkers}]

\* new: let worker_count = foundation.get_worker_count().try_into().unwrap()
WorkerNewCall ==
    /\ npc = "idle"
    /\ Configured
    /\ npc' = "init_command_handles"
    /\ UNCHANGED <<tx_commands, rx_commands, spawned, join_handles, returned, wrouted>>

\* init_command_handles: one turn of for _ in 0..worker_count; a channel is
\* named by its position in tx_commands, counted from 0
InitCommandHandles ==
    /\ npc = "init_command_handles"
    /\ IF Len(tx_commands) < foundation.worker_count
         THEN /\ tx_commands' = Append(tx_commands, Len(tx_commands))
              /\ rx_commands' =
                    Append(rx_commands, [channel |-> Len(tx_commands),
                                         capacity |-> foundation.worker_count])
              /\ UNCHANGED npc
         ELSE /\ npc' = "spawn"
              /\ UNCHANGED <<tx_commands, rx_commands>>
    /\ UNCHANGED <<spawned, join_handles, returned, wrouted>>

\* (mutant) a worker given handles to the other workers only
tx_commands_without_self(tx, worker_id) ==
    SelectSeq(tx, LAMBDA channel : channel # worker_id)

\* new: tx_commands: tx_commands.clone()
tx_commands_clone(tx, worker_id) == tx

\* (mutant) the slab mask of a Worker taken from the worker count
new_bitwise_slab_match_from_workers(f) == f.worker_count - 1

\* new: bitwise_slab_match: (foundation.get_slabs_per_worker() - 1)
new_bitwise_slab_match(f) == f.slabs_per_worker - 1

\* new: bitwise_worker_match: (foundation.get_worker_count() - 1)
new_bitwise_worker_match(f) == f.worker_count - 1

\* new: one turn of for (worker_id, rx_command) in
\* rx_commands.drain(..).enumerate(), then the return of the handles; the
\* masks go through try_into::<u16>().unwrap()
SpawnWorker ==
    /\ npc = "spawn"
    /\ IF rx_commands # <<>>
         THEN IF \/ new_bitwise_worker_match(foundation) \notin 0 .. U16Max
                 \/ new_bitwise_slab_match(foundation) \notin 0 .. U16Max
                THEN /\ npc' = "panicked"
                     /\ UNCHANGED <<rx_commands, spawned, join_handles, returned>>
                ELSE /\ spawned' = Append(spawned,
                          [worker_id |-> Len(spawned),
                           tx_commands |-> tx_commands_clone(tx_commands, Len(spawned)),
                           rx_command |-> Head(rx_commands).channel,
                           bitwise_worker_match |-> new_bitwise_worker_match(foundation),
                           bitwise_slab_match |-> new_bitwise_slab_match(foundation)])
                     /\ join_handles' = Append(join_handles, Len(spawned))
                     /\ rx_commands' = Tail(rx_commands)
                     /\ UNCHANGED <<npc, returned>>
         ELSE /\ npc' = "returned"
              /\ returned' = [status |-> "ok", join_handles |-> join_handles,
                              tx_commands |-> tx_commands]
              /\ UNCHANGED <<rx_commands, spawned, join_handles>>
    /\ UNCHANGED <<tx_commands, wrouted>>

\* Worker::extract_worker_id_from
worker_extract_worker_id_from(worker, digest) ==
    BitAnd(((digest[2] * 256) % 65536) + digest[1], worker.bitwise_worker_match)

\* Worker::extract_slab_id_from
worker_extract_slab_id_from(worker, digest) ==
    BitAnd(((digest[4] * 256) % 65536) + digest[3], worker.bitwise_slab_match)

\* the spawned worker at position i routes a digest
WorkerRoute(i, digest) ==
    /\ npc = "returned"
    /\ Len(wrouted) < MaxWorkerRoutes
    /\ wrouted' = Append(wrouted,
          [worker |-> spawned[i].worker_id,
           digest |-> digest,
           worker_id |-> worker_extract_worker_id_from(spawned[i], digest),
           slab_id |-> worker_extract_slab_id_from(spawned[i], digest)])
    /\ UNCHANGED <<npc, tx_commands, rx_commands, spawned, join_handles, returned>>

WorkerNewStep ==
    \/ WorkerNewCall
    \/ InitCommandHandles
    \/ SpawnWorker
    \/ \E i \in DOMAIN spawned, d \in Digests : WorkerRoute(i, d)

NextNew ==
    \/ FoundationNew /\ UNCHANGED <<fvars, wvars, avars, pvars, rvars, nvars>>
    \/ WorkerNewStep /\ UNCHANGED <<fvars, wvars, cvars, avars, pvars, rvars>>

\* the process starts and will build its Foundation and its workers
InitNew ==
    /\ InitServices
    /\ cache = [t \in Titles |-> NoFile]
    /\ opt \in NewOptions
    /\ cpc = "new"
    /\ foundation = [status |-> "none"]
    /\ routed = <<>>
    /\ ApiIdle
    /\ PageIdle
    /\ RoundIdle
    /\ NewIdle

SpecNew == InitNew /\ [][NextNew]_vars

\* ================================================================ claims
\* the worker a title's digest routes to
Owner(title) == extract_worker_id_from(get_digest(title))

\* C1: at any instant at most one upstream HTTP request of the fetch_service
\* instance is in flight, however the callers interleave their Gets.
C1_SingleInFlight == inflight <= 1

\* a request is in flight while another Get already waits in the queue
C1_Witness == inflight = 1 /\ \E i \in DOMAIN fq : fq[i].cmd = "Get"

\* C2: one get(title) issues at most 5 upstream requests, cached or not.
C2_MaxLagBound == attempts <= 5

\* an uncached title answered MaxLag every time: the fifth request is out
C2_Witness == attempts = 5 /\ ~hit /\ fpc = "fetch_page_retry"

\* C3: Gets are handled one at a time in queue order: when fetch_service
\* dequeues a command, every Get dequeued before has been replied to exactly
\* once, and no Get is ever replied to twice.
C3_OneAtATime ==
    [][/\ \A id \in DOMAIN gets' : Len(gets'[id].replies) <= 1
       /\ Len(fq') < Len(fq) =>
            /\ \A i \in DOMAIN served : Len(gets[served[i]].replies) = 1
            /\ \A i \in DOMAIN served' : served'[i] = i]_vars

\* the second Get is dequeued after the first was replied to
C3_Witness ==
    /\ Len(served) = 2
    /\ fpc = "get_page_from"
    /\ Len(gets[1].replies) = 1

\* C4 (as claimed): a get served from an existing cache file issues no
\* upstream request, whatever the file holds.
C4_CacheHitNoHttp == hit => attempts = 0

\* C5 (as claimed): a worker that answered Fetch for a title has sent a Get for
\* that title to the fetcher; stated at the worker's exit, when it can send
\* nothing more.
C5_FetchDispatched ==
    \A w \in Workers :
      wpc[w] = "exited" =>
        \A rid \in DOMAIN reqs : \A k \in DOMAIN reqs[rid].replies :
          (reqs[rid].replies[k].by = w /\ reqs[rid].replies[k].msg = "Fetch") =>
            \E id \in DOMAIN gets :
              gets[id].title = reqs[rid].title /\ gets[id].from = w

\* C6: a worker in process_request for a title it holds no entry for can
\* always send its reply, whatever the fetcher is doing, and the reply it
\* sends on an open channel is Fetch.
C6_FetchWithoutWaiting ==
    [][\A w \in Workers :
         (wpc[w] = "process_request" /\ reqs[wcur[w]].title \notin WorkerEntries(w)) =>
           /\ ENABLED ProcessRequest(w)
           /\ (wpc'[w] # "process_request" /\ reqs[wcur[w]].open) =>
                /\ Len(reqs'[wcur[w]].replies) = 1
                /\ reqs'[wcur[w]].replies[1].msg = "Fetch"
                /\ reqs'[wcur[w]].replies[1].by = w]_vars

\* Fetch was sent for a title while the fetcher is in the middle of a get of
\* that title and has not replied
C6_Witness ==
    /\ cur # 0
    /\ fpc \in {"fetch_page_initial", "sleep", "fetch_page_retry"}
    /\ \E rid \in DOMAIN reqs :
         /\ reqs[rid].title = gets[cur].title
         /\ reqs[rid].replies # <<>>
         /\ reqs[rid].replies[1].msg = "Fetch"

\* C7 (as claimed): a worker that dequeued Update(entry) for title T keeps
\* running and holds the entry, and every reply it sends for T afterwards is
\* Links.
C7_UpdateInstalls ==
    /\ \A w \in Workers : \A t \in updates[w] :
         wpc[w] # "panicked" /\ t \in WorkerEntries(w)
    /\ \A rid \in DOMAIN reqs : \A k \in DOMAIN reqs[rid].replies :
         reqs[rid].replies[k].updated => reqs[rid].replies[k].msg = "Links"

\* the fetcher has returned MissingTitle for the title
FetcherSaidMissing(title) ==
    \E id \in DOMAIN gets :
      gets[id].title = title /\ gets[id].replies = <<"MissingTitle">>

\* C8 (as claimed): once the fetcher has returned MissingTitle for T, every
\* reply the owning worker sends for a Request{T} is Missing.
C8_MissingAnswered ==
    [][\A w \in Workers :
         (/\ wpc[w] = "process_request"
          /\ wpc'[w] # "process_request"
          /\ reqs[wcur[w]].open
          /\ Owner(reqs[wcur[w]].title) = w
          /\ FetcherSaidMissing(reqs[wcur[w]].title)) =>
           reqs'[wcur[w]].replies[Len(reqs'[wcur[w]].replies)].msg = "Missing"]_vars

\* C9 (as claimed): a Request delivered to a worker the title does not route
\* to never reaches process_request and gets no reply.
C9_MisroutedPanics ==
    /\ \A w \in Workers :
         wpc[w] = "process_request" => Owner(reqs[wcur[w]].title) = w
    /\ \A rid \in DOMAIN reqs :
         Owner(reqs[rid].title) # reqs[rid].to => reqs[rid].replies = <<>>

\* C10 (as claimed): once the owning worker has answered a Request for a
\* title, exactly one worker holds an Entry for the title, and it is the owner.
C10_OwnershipUnique ==
    \A rid \in DOMAIN reqs :
      (reqs[rid].to = Owner(reqs[rid].title) /\ reqs[rid].replies # <<>>) =>
        {w \in Workers : reqs[rid].title \in WorkerEntries(w)}
          = {Owner(reqs[rid].title)}

\* the End sent to worker w has been dequeued
WorkerEndDequeued(w) ==
    w \in wended /\ \A i \in DOMAIN wq[w] : wq[w][i].cmd # "End"

\* the replies worker w has sent so far
RepliesBy(w) ==
    {<<rid, k>> \in (DOMAIN reqs) \X (1 .. MaxRequests) :
        k \in DOMAIN reqs[rid].replies /\ reqs[rid].replies[k].by = w}

\* the worker task has finished (returned or unwound), so its JoinHandle resolves
WorkerTerminated(w) == wpc[w] \in {"exited", "panicked"}

FetchEndDequeued == fended /\ \A i \in DOMAIN fq : fq[i].cmd # "End"

\* C12: once fetch_service has dequeued End it has exited and dequeues nothing
\* more; every Get dequeued before the End has got exactly one reply, and the
\* Gets behind the End are never served and never answered.
C12_EndStopsFetcher ==
    [][/\ FetchEndDequeued' =>
            /\ fpc' = "exited"
            /\ \A i \in DOMAIN served' : Len(gets'[served'[i]].replies) = 1
            /\ \A id \in DOMAIN gets' :
                 (\A i \in DOMAIN served' : served'[i] # id) =>
                     gets'[id].replies = <<>>
       /\ FetchEndDequeued =>
            /\ Len(fq') >= Len(fq)
            /\ served' = served
            /\ \A id \in DOMAIN gets : gets'[id].replies = gets[id].replies]_vars

\* the fetcher served one Get, exited on End, and a Get is still queued behind
C12_Witness ==
    /\ fpc = "exited"
    /\ Len(served) >= 1
    /\ \E i \in DOMAIN fq : fq[i].cmd = "Get"

\* the powers of two up to 2^17
Pow2s == {2 ^ k : k \in 0 .. 17}

\* C13: whenever get_foundation_for returns, worker_count and
\* slabs_per_worker are powers of two (so each at least 1), the masks are
\* worker_count - 1 and slabs_per_worker - 1, and each count is at most 2^16,
\* so that worker_count * slabs_per_worker is at most 2^32.
C13_PowerOfTwoTopology ==
    Configured =>
      /\ foundation.worker_count \in Pow2s
      /\ foundation.slabs_per_worker \in Pow2s
      /\ foundation.bitwise_worker_match = foundation.worker_count - 1
      /\ foundation.bitwise_slab_match = foundation.slabs_per_worker - 1
      /\ foundation.worker_count <= 65536
      /\ foundation.slabs_per_worker <= 65536

\* --workers 17 on 8589934 KiB: 16 workers of 256 slabs, both rounded down
C13_Witness ==
    /\ Configured
    /\ opt.workers = [some |-> TRUE, value |-> 17]
    /\ foundation.worker_count = 16
    /\ foundation.slabs_per_worker = 256

\* the largest power of two that is at most n (0 when there is none)
LargestPow2Le(n) ==
    IF n < 1 THEN 0 ELSE CHOOSE p \in Pow2s : p <= n /\ n < 2 * p

\* the topology formula of the specification, term by term
FormulaRawWorkers ==
    IF opt.workers.some THEN opt.workers.value ELSE Min(2 * opt.cores, 65536)

FormulaWorkerCount == LargestPow2Le(FormulaRawWorkers)

FormulaReserve ==
    (1024 * 1024) + Max((8 * FormulaWorkerCount) \div 1024, 1024)
      + FormulaWorkerCount + ((64 * FormulaWorkerCount) \div 1024)

FormulaSlabsTotal == Min((opt.memory - FormulaReserve) \div 1024, 65535)

FormulaSlabsPerWorker ==
    LargestPow2Le(FormulaSlabsTotal \div FormulaWorkerCount)

FormulaSpareSlabs ==
    2 * (FormulaSlabsTotal - (FormulaWorkerCount * FormulaSlabsPerWorker))

\* the formula yields a topology: at least one worker, at least one slab each
FormulaDefined ==
    FormulaWorkerCount >= 1 /\ FormulaSlabsTotal \div FormulaWorkerCount >= 1

\* C14 (as claimed): with memory at or above the floor, a topology the
\* program returns has the worker_count of the formula; where the formula
\* yields a topology the program returns exactly that one; and
\* (8589934 KiB, 8 cores, --workers 16) gives 16 workers, 256 slabs per
\* worker, 6534 spare slabs.
C14_TopologyMatchesFormula ==
    (cpc = "done" /\ opt.memory >= 2097152) =>
      /\ Configured => foundation.worker_count = FormulaWorkerCount
      /\ FormulaDefined =>
           /\ Configured
           /\ foundation.slabs_per_worker = FormulaSlabsPerWorker
           /\ foundation.spare_count = FormulaSpareSlabs
      /\ (/\ opt.memory = 8589934
          /\ opt.cores = 8
          /\ opt.workers = [some |-> TRUE, value |-> 16]) =>
            /\ Configured
            /\ foundation.worker_count = 16
            /\ foundation.slabs_per_worker = 256
            /\ foundation.spare_count = 6534

\* C15: Foundation::new ends in exit(1), returning no Foundation, exactly when
\* the memory is below 2097152 KiB.
C15_FloorExit ==
    cpc = "done" =>
      /\ (opt.memory < 2097152) <=> (foundation.status = "exit")
      /\ foundation.status = "exit" => foundation.code = 1
      /\ (opt.memory < 2097152) => ~Configured

\* one KiB short of the floor: exit(1)
C15_Witness ==
    cpc = "done" /\ opt.memory = 2097151 /\ foundation = Exited

\* the little-endian u16 of two octets
LittleEndian(lo, hi) == lo + (256 * hi)

\* C16: every routing evaluation gives worker_id = LE16(octets 0-1) AND
\* (worker_count - 1), below worker_count, and slab_id = LE16(octets 2-3) AND
\* (slabs_per_worker - 1), below slabs_per_worker (for power-of-two counts the
\* AND is the remainder); two evaluations of one digest under one topology
\* give the same pair.
C16_Routing ==
    \A i \in DOMAIN routed :
      /\ routed[i].worker_id =
            LittleEndian(routed[i].digest[1], routed[i].digest[2])
              % foundation.worker_count
      /\ routed[i].slab_id =
            LittleEndian(routed[i].digest[3], routed[i].digest[4])
              % foundation.slabs_per_worker
      /\ routed[i].worker_id < foundation.worker_count
      /\ routed[i].slab_id < foundation.slabs_per_worker
      /\ \A j \in DOMAIN routed :
           routed[j].digest = routed[i].digest =>
             /\ routed[j].worker_id = routed[i].worker_id
             /\ routed[j].slab_id = routed[i].slab_id

\* "Rail transport" routed twice under 16 workers of 256 slabs: worker 11,
\* slab 196 both times
C16_Witness ==
    /\ Len(routed) = 2
    /\ foundation.worker_count = 16 /\ foundation.slabs_per_worker = 256
    /\ \A i \in DOMAIN routed :
         /\ routed[i].digest = get_digest("Rail transport")
         /\ routed[i].worker_id = 11
         /\ routed[i].slab_id = 196

\* the digits of a parameter value without leading zeros
RECURSIVE Significant(_)
Significant(digits) ==
    IF digits # <<>> /\ Head(digits) = 0 THEN Significant(Tail(digits)) ELSE digits

\* the parameter value is the decimal text of an integer
IsInteger(p) == p.present /\ ~p.junk /\ p.digits # <<>>

\* ... of an integer below 1
IntegerBelow1(p) ==
    IsInteger(p) /\ (p.sign = "-" \/ Significant(p.digits) = <<>>)

\* ... of an integer above 6
IntegerAbove6(p) ==
    /\ IsInteger(p) /\ p.sign # "-"
    /\ \/ Len(Significant(p.digits)) > 1
       \/ Len(Significant(p.digits)) = 1 /\ Significant(p.digits)[1] > 6

\* C20 (as claimed): the depth of every answered /connections request lies in
\* 1..6: 2 for a missing or non-numeric depth parameter, 1 for an integer
\* below 1, 6 for every integer above 6 however large.
C20_DepthClamped ==
    (apc = "responded" /\ aresp.status = 200) =>
      /\ aresp.depth \in 1 .. 6
      /\ ~IsInteger(areq.depth) => aresp.depth = 2
      /\ IntegerBelow1(areq.depth) => aresp.depth = 1
      /\ IntegerAbove6(areq.depth) => aresp.depth = 6

\* the path is /connections in some letter case
IsConnectionsPath(path) ==
    Len(path) = 2 /\ path[1] = "" /\ path[2] \in {"connections", "Connections", "CONNECTIONS"}

\* C21 (as claimed): a request whose method is not GET, or whose path is not
\* /connections (in any letter case), is answered 404 with a body that names
\* the requested path.
C21_NotFoundNamesPath ==
    (apc = "responded" /\ (areq.method # "GET" \/ ~IsConnectionsPath(areq.path))) =>
      /\ aresp.status = 404
      /\ aresp.body = "Nothing found at"
      /\ aresp.path = areq.path

\* the process has left through exit(1)
ProcessExitedWith1 == foundation = Exited \/ astart = Exited

\* the configuration is fatal: memory below the floor, or no topology could
\* be computed from it
FatalConfiguration == opt.memory < 2097152 \/ foundation.status = "panic"

\* C22 (as claimed): the process exits with code 1 only on a fatal
\* configuration; starting the API service on a valid configuration never
\* ends the process.
C22_ExitOnlyOnFatalConfiguration ==
    /\ ProcessExitedWith1 => FatalConfiguration
    /\ Configured => astart.status \in {"none", "ok"}

\* C23 (as claimed): fetch_page returns the body for every 2xx status and an
\* Http error carrying the status for every other status.
C23_SuccessIs2xx ==
    (ppc # "answer" /\ pin.kind = "http") =>
      IF pin.status \in 200 .. 299
        THEN fetched.ok /\ fetched.body = pin.body
        ELSE ~fetched.ok /\ fetched.err = "Http" /\ fetched.status = pin.status

\* C24 (as claimed): parse yields MissingTitle exactly for an error object
\* of code "missingtitle", Lag exactly for one of code "maxlag", an entry
\* exactly for a body of the parse shape, and a Parse error for the rest.
C24_ClassifiedByErrorCode ==
    ppc = "parsed" =>
      /\ presult.kind = "MissingTitle"
            <=> (pin.body.shape = "error" /\ pin.body.code = "missingtitle")
      /\ presult.kind = "Lag"
            <=> (pin.body.shape = "error" /\ pin.body.code = "maxlag")
      /\ presult.kind = "Ok" <=> pin.body.shape = "parse"
      /\ presult.kind \in {"MissingTitle", "Lag", "Ok", "Parse"}

\* the positions of the links with ns = 0
MainNamespace(links) == {i \in DOMAIN links : links[i].ns = 0}

\* C25: the entry parse returns for a success payload has the payload's
\* title, and its outbound is the titles of exactly the ns = 0 links, in the
\* payload's order.
C25_OutboundIsMainNamespace ==
    (ppc = "parsed" /\ pin.body.shape = "parse") =>
      /\ presult.kind = "Ok"
      /\ presult.title = pin.body.title
      /\ Len(presult.outbound) = Cardinality(MainNamespace(pin.body.links))
      /\ \E at \in [DOMAIN presult.outbound -> MainNamespace(pin.body.links)] :
            /\ \A i, j \in DOMAIN at : i < j => at[i] < at[j]
            /\ \A i \in DOMAIN at : presult.outbound[i] = pin.body.links[at[i]].title

\* a talk link between two article links: the two articles come out, in order
C25_Witness ==
    /\ ppc = "parsed"
    /\ Len(pin.body.links) = 3
    /\ pin.body.links[2].ns = 1
    /\ presult.outbound = <<"Assortative mixing", "Adolescent cliques">>

\* C30 (as claimed): the Parse error of a rejected body carries that body.
C30_ParseErrorCarriesBody ==
    (ppc = "parsed" /\ presult.kind = "Parse") => presult.message = pin.body.raw

\* C30 (amended): the Parse error of a rejected body carries the fixed text
\* "Unknown wikipedia payload", whatever the body was.
C30_ParseErrorIsFixedText ==
    (ppc = "parsed" /\ presult.kind = "Parse") =>
      presult.message = "Unknown wikipedia payload"

\* a body that is no JSON at all was rejected
C30_Witness ==
    ppc = "parsed" /\ pin.body.raw = "<html>" /\ presult.kind = "Parse"

\* C26 (as claimed): when get(title) is about to answer Ok (Resolved) or
\* MissingTitle and the page it parsed came from upstream, the cache file of
\* the title holds that page.
C26_ResolvedAndMissingCached ==
    (fpc = "send" /\ result \in {"Ok", "MissingTitle"} /\ attempts >= 1) =>
      cache[gets[cur].title] = page

\* the query pairs of a request, as a set
QueryOf(request) == {request.query[i] : i \in DOMAIN request.query}

\* C27 (as claimed): the upstream request in flight, first attempt or retry,
\* carries action=parse, format=json, page=<title>, prop=links and maxlag=5,
\* and goes through the preconfigured client: gzip accepted, the identifying
\* user agent.
C27_RequestParameters ==
    inflight >= 1 =>
      LET request == fetch_request(gets[cur].title) IN
      /\ {<<"action", "parse">>, <<"format", "json">>, <<"prop", "links">>,
           <<"page", gets[cur].title>>, <<"maxlag", "5">>} \subseteq QueryOf(request)
      /\ request.client = CLIENT
      /\ request.client.gzip
      /\ request.client.user_agent # ""

\* queue `after` is queue `before` with one message appended, or with its
\* oldest message taken off, or unchanged
FifoStep(before, after) ==
    \/ after = before
    \/ before # <<>> /\ after = Tail(before)
    \/ Len(after) = Len(before) + 1 /\ SubSeq(after, 1, Len(before)) = before

\* C28: the fetcher's queue and every worker's command queue never hold more
\* than worker_count messages, a send only appends and a receive only takes
\* the oldest message, so the messages of a sender are received in the order
\* they were sent.
C28_BoundedFifo ==
    [][/\ Len(fq') <= worker_count
       /\ FifoStep(fq, fq')
       /\ \A i, j \in DOMAIN served' : i < j => served'[i] < served'[j]
       /\ \A w \in Workers :
            /\ Len(wq'[w]) <= worker_count
            /\ FifoStep(wq[w], wq'[w])]_vars

\* a worker's queue is full with two Requests in the order they were sent,
\* while its End and an Update are still to be sent and have to wait
C28_Witness ==
    \E w \in Workers :
      /\ Len(wq[w]) = worker_count
      /\ \A i \in DOMAIN wq[w] : wq[w][i].cmd = "Request" /\ wq[w][i].id = i
      /\ w \notin wended
      /\ nupdates < MaxUpdates

\* the upstream requests check_maxlag has issued for the Get being served
Retries == attempts - (IF hit THEN 0 ELSE 1)

\* C29: check_maxlag gives up on a Lag response only after exactly 4 further
\* upstream requests, each of them started from the sleep, and what it then
\* returns is the Lag error.
C29_FourRetriesThenLag ==
    [][/\ (fpc = "check_maxlag" /\ response = "Lag" /\ fpc' = "send") =>
            (Retries = 4 /\ result' = "Lag")
       /\ (fpc' = "send" /\ result' = "Lag") => Retries = 4
       /\ (fpc' = "fetch_page_retry" /\ fpc # "fetch_page_retry") => fpc = "sleep"
       /\ (fpc = "check_maxlag" /\ response = "Lag" /\ Retries < 4) =>
            fpc' \in {"check_maxlag", "sleep"}
      ]_vars

\* an uncached title, five MaxLag answers: the Lag error is about to be sent
C29_Witness ==
    fpc = "send" /\ result = "Lag" /\ ~hit /\ attempts = 5 /\ tries = 0

\* check_maxlag is past its first turn: an upstream request of the loop was answered
InRetryLoop == fpc = "check_maxlag" /\ Retries >= 1

\* the three kinds of body that are not MaxLag, with the outcome of each
OutcomeOf(body) ==
    IF body = SuccessBody THEN "Ok"
    ELSE IF body = MissingBody THEN "MissingTitle"
    ELSE "Parse"

\* the get leaves check_maxlag with the outcome of the body it holds and
\* issues no further upstream request
EndsWithOutcomeOfBody ==
    /\ InRetryLoop /\ response # "Lag" /\ fpc' # fpc =>
          /\ fpc' = "send"
          /\ result' = response
          /\ attempts' = attempts
    /\ InRetryLoop /\ page \in {SuccessBody, MissingBody, GarbageBody} =>
          response = OutcomeOf(page)
    /\ fpc = "send" /\ fpc' # fpc => fpc' \in {"recv", "panicked"}

Failed(a) ==
    \/ a.kind = "transport"
    \/ a.kind = "http" /\ ~(a.status \in 200..299)

\* the FetchError of a failed answer
ErrorOf(a) == IF a.kind = "transport" THEN "Reqwest" ELSE "Http"

\* C38: when a request of the retry loop fails with a transport error or a
\* status outside 2xx, the get goes straight to its reply with that error,
\* issues no further request and leaves the cache as it was.
C38_RetryFailureEndsGet ==
    [][/\ fpc = "fetch_page_retry" /\ fpc' # fpc /\ Failed(answer') =>
             /\ fpc' = "send"
             /\ result' = ErrorOf(answer')
             /\ attempts' = attempts
             /\ cache' = cache
       /\ fpc = "send" /\ Retries >= 1 /\ Failed(answer) =>
             /\ fpc' \in {"send", "recv", "panicked"}
             /\ fpc' = fpc => attempts' = attempts
             /\ cache' = cache]_vars

\* a 503 answered a request of the retry loop and the Http error is about to
\* be sent
C38_Witness ==
    /\ fpc = "send" /\ Retries >= 1
    /\ answer.kind = "http" /\ answer.status = 503
    /\ result = "Http"

C35_DigestOfRequestedTitle ==
    (ppc = "parsed" /\ fetched.ok /\ presult.kind = "Ok") =>
      presult.digest = get_digest(pfor)

\* the powers of two that fit 32 bits
Pow2s32 ==
    {U32(0, l) : l \in {1, 2, 4, 8, 16, 32, 64, 128, 256, 512, 1024, 2048,
                         4096, 8192, 16384, 32768}}
      \cup {U32(h, 0) : h \in {1, 2, 4, 8, 16, 32, 64, 128, 256, 512, 1024,
                                2048, 4096, 8192, 16384, 32768}}

\* power *= 2 did not fit: the call panicked, or power wrapped to 0
Overflowed ==
    \/ rpc = "panicked"
    \/ rpc \in {"while", "mul"} /\ rpower = U32(0, 0)

C34_OverrideGivesTopology ==
    (cpc = "done" /\ ~MemoryBelowFloor(opt.memory) /\ opt.workers.some) =>
      foundation.status = "ok"

\* C36 (as claimed): a Get whose caller dropped the reply channel does not
\* stop fetch_service.
C36_AbandonedGetHarmless ==
    (\E id \in DOMAIN gets : ~gets[id].open) => fpc # "panicked"

\* worker w has a Request in its queue with no End ahead of it
RequestPending(w) ==
    \E i \in DOMAIN wq[w] :
       /\ wq[w][i].cmd = "Request"
       /\ \A j \in 1 .. (i - 1) : wq[w][j].cmd # "End"

\* C37 (as claimed), in the form a finite run refutes: a worker_service that
\* has a Request waiting ahead of any End stays alive to answer it; a task
\* that panicked takes no further step, so a Request left in its queue is
\* never answered.
C37_PendingRequestKeepsWorker ==
    [][\A w \in Workers :
          (RequestPending(w) /\ wpc[w] \in {"recv", "process_request"}) =>
             wpc'[w] # "panicked"]_vars

====
